---- MODULE Spec2Model ----
(***************************************************************************)
(* A model of rmr.py: the pseudo-terminal driver (Process), the diff       *)
(* parser (extract_changes), the hunk decision loop                        *)
(* (revert_ignored_changes) and the ignore store it consults.              *)
(*                                                                         *)
(* Text is modelled at character level: a str is a sequence of one-        *)
(* character strings, so that split, rstrip, splitlines, startswith,       *)
(* partition and the substring test are computed as Python computes them.  *)
(***************************************************************************)
EXTENDS Integers, Sequences, FiniteSets, TLC

(***************************************************************************)
(* Python values                                                           *)
(***************************************************************************)
\* None: a value no str (sequence of characters) is equal to.
None == <<"None">>

\* Truthiness of an optional str: None and "" are falsy.
Truthy(v) == v # None /\ v # <<>>

CR == "\r"
LF == "\n"

(***************************************************************************)
(* str helpers                                                             *)
(***************************************************************************)
\* line.startswith(prefix)
StartsWith(line, prefix) ==
    /\ Len(line) >= Len(prefix)
    /\ SubSeq(line, 1, Len(prefix)) = prefix

\* needle in line (substring test)
Contains(line, needle) ==
    \E i \in 0..(Len(line) - Len(needle)) :
        SubSeq(line, i + 1, i + Len(needle)) = needle

\* The k-th smallest element of a set of numbers.
Nth(S, k) == CHOOSE i \in S : Cardinality({j \in S : j < i}) = k - 1

\* line.partition(sep)[2]: what follows the first occurrence of sep
\* ("" when sep does not occur).
AfterFirst(line, sep) ==
    LET at == {i \in 0..(Len(line) - Len(sep)) :
                  SubSeq(line, i + 1, i + Len(sep)) = sep}
    IN  IF at = {} THEN <<>>
        ELSE SubSeq(line, Nth(at, 1) + Len(sep) + 1, Len(line))

\* data.split("\n"): always at least one piece; a trailing "\n" gives a
\* final empty piece.
Split(data) ==
    LET brk == {i \in 1..Len(data) : data[i] = LF}
        n   == Cardinality(brk)
        end(k) == IF k > n THEN Len(data) + 1 ELSE Nth(brk, k)
    IN  [k \in 1..(n + 1) |->
            SubSeq(data, (IF k = 1 THEN 1 ELSE end(k - 1) + 1), end(k) - 1)]

\* line.rstrip("\r")
RStripCR(line) ==
    LET keep == {i \in 0..Len(line) : \A j \in (i + 1)..Len(line) : line[j] = CR}
    IN  SubSeq(line, 1, Nth(keep, 1))

\* output.splitlines(): breaks at "\n", "\r" and "\r\n"; no final empty
\* piece.
SplitLines(data) ==
    LET n == Len(data)
        \* the last character of each line break
        brk == {i \in 1..n : \/ data[i] = LF
                             \/ data[i] = CR /\ ~(i < n /\ data[i + 1] = LF)}
        m == Cardinality(brk)
        end(k) == Nth(brk, k)
        \* the length of the break ending at i
        width(i) == IF data[i] = LF /\ i > 1 /\ data[i - 1] = CR THEN 2 ELSE 1
        start(k) == IF k = 1 THEN 1 ELSE end(k - 1) + 1
        last == IF m = 0 THEN 1 ELSE end(m) + 1
        full == [k \in 1..m |-> SubSeq(data, start(k), end(k) - width(end(k)))]
    IN  IF last <= n THEN Append(full, SubSeq(data, last, n)) ELSE full

\* "".join(lines)
RECURSIVE Flatten(_)
Flatten(ss) == IF ss = <<>> THEN <<>> ELSE Head(ss) \o Flatten(Tail(ss))

(***************************************************************************)
(* extract_changes                                                         *)
(***************************************************************************)
ANSWER_LINES == {<<"n">>, <<"y">>, <<"s">>}
DIFF_PREFIX  == <<"d","i","f","f"," ">>
INDEX_PREFIX == <<"i","n","d","e","x"," ">>
HUNK_PREFIX  == <<"@","@"," ">>
A_MARKER     == <<"-","-","-"," ","a","/">>
B_MARKER     == <<"+","+","+"," ","b","/">>
A_SEP        == <<" ","a","/">>
B_SEP        == <<" ","b","/">>

\* A variant that takes the default path on context lines only.
ExtractLine_DefaultOnContext(st, line, default_path) ==
    IF line \in ANSWER_LINES THEN st
    ELSE IF StartsWith(line, DIFF_PREFIX) \/ StartsWith(line, INDEX_PREFIX) THEN
        [a_path |-> None, b_path |-> None, change |-> <<>>,
         out |-> IF st.change # <<>>
                 THEN Append(st.out, <<st.a_path, st.change>>) ELSE st.out]
    ELSE IF StartsWith(line, HUNK_PREFIX) THEN st
    ELSE IF StartsWith(line, A_MARKER) THEN
        [st EXCEPT !.a_path = AfterFirst(line, A_SEP)]
    ELSE IF StartsWith(line, B_MARKER) THEN
        [st EXCEPT !.b_path = AfterFirst(line, B_SEP)]
    ELSE
        LET a == IF ~Truthy(st.a_path) /\ Truthy(default_path)
                 THEN default_path ELSE st.a_path
        IN  IF ~(StartsWith(line, <<"+">>) \/ StartsWith(line, <<"-">>)) THEN
                [st EXCEPT !.a_path = a, !.change = <<>>,
                           !.out = IF st.change # <<>>
                                   THEN Append(st.out, <<a, st.change>>)
                                   ELSE st.out]
            ELSE [st EXCEPT !.change = Append(st.change, line)]

\* A variant that passes over context lines without ending the change.
ExtractLine_ContextKeepsChange(st, line, default_path) ==
    IF line \in ANSWER_LINES THEN st
    ELSE IF StartsWith(line, DIFF_PREFIX) \/ StartsWith(line, INDEX_PREFIX) THEN
        [a_path |-> None, b_path |-> None, change |-> <<>>,
         out |-> IF st.change # <<>>
                 THEN Append(st.out, <<st.a_path, st.change>>) ELSE st.out]
    ELSE IF StartsWith(line, HUNK_PREFIX) THEN st
    ELSE IF StartsWith(line, A_MARKER) THEN
        [st EXCEPT !.a_path = AfterFirst(line, A_SEP)]
    ELSE IF StartsWith(line, B_MARKER) THEN
        [st EXCEPT !.b_path = AfterFirst(line, B_SEP)]
    ELSE
        LET a == IF ~Truthy(st.a_path) /\ Truthy(default_path)
                 THEN default_path ELSE st.a_path
        IN  IF ~(StartsWith(line, <<"+">>) \/ StartsWith(line, <<"-">>)) THEN
                [st EXCEPT !.a_path = a]
            ELSE [st EXCEPT !.a_path = a, !.change = Append(st.change, line)]

\* One iteration of the for loop; st is the generator's local state
\* [a_path, b_path, change, out], out being what has been yielded so far.
ExtractLine(st, line, default_path) ==
    IF line \in ANSWER_LINES THEN st
    ELSE IF StartsWith(line, DIFF_PREFIX) \/ StartsWith(line, INDEX_PREFIX) THEN
        [a_path |-> None, b_path |-> None, change |-> <<>>,
         out |-> IF st.change # <<>>
                 THEN Append(st.out, <<st.a_path, st.change>>) ELSE st.out]
    ELSE IF StartsWith(line, HUNK_PREFIX) THEN st
    ELSE IF StartsWith(line, A_MARKER) THEN
        [st EXCEPT !.a_path = AfterFirst(line, A_SEP)]
    ELSE IF StartsWith(line, B_MARKER) THEN
        [st EXCEPT !.b_path = AfterFirst(line, B_SEP)]
    ELSE
        LET a == IF ~Truthy(st.a_path) /\ Truthy(default_path)
                 THEN default_path ELSE st.a_path
        IN  IF ~(StartsWith(line, <<"+">>) \/ StartsWith(line, <<"-">>)) THEN
                [st EXCEPT !.a_path = a, !.change = <<>>,
                           !.out = IF st.change # <<>>
                                   THEN Append(st.out, <<a, st.change>>)
                                   ELSE st.out]
            ELSE [st EXCEPT !.a_path = a, !.change = Append(st.change, line)]

RECURSIVE ExtractLoop(_, _, _)
ExtractLoop(st, lines, default_path) ==
    IF lines = <<>> THEN st
    ELSE ExtractLoop(ExtractLine(st, Head(lines), default_path),
                     Tail(lines), default_path)

\* list(extract_changes(output, default_path)): a sequence of <<path, change>>.
extract_changes(output, default_path) ==
    LET st == ExtractLoop([a_path |-> None, b_path |-> None,
                           change |-> <<>>, out |-> <<>>],
                          SplitLines(output), default_path)
    IN  IF st.change # <<>>
        THEN Append(st.out, <<st.a_path, st.change>>)
        ELSE st.out

(***************************************************************************)
(* Texts the driven program prints.  On a pseudo-terminal every line ends  *)
(* "\r\n"; the prompt itself ends without a line break.                    *)
(***************************************************************************)
PHRASE ==
    <<"D","i","s","c","a","r","d"," ","t","h","i","s"," ","h","u","n","k",
      " ","f","r","o","m"," ","w","o","r","k","t","r","e","e">>
PROMPT == <<"(","1","/","1",")"," ">> \o PHRASE \o <<" ","[","y",",","n","]","?"," ">>

A_TXT    == <<"a",".","t","x","t">>
L_MINUS  == A_MARKER \o A_TXT
L_PLUS   == B_MARKER \o A_TXT
L_HUNK   == <<"@","@"," ","-","1"," ","+","1"," ","@","@">>
L_CTX    == <<" ","c">>
L_FOO    == <<"+","f","o","o">>
L_BAR    == <<"+","b","a","r">>
L_DEL    == <<"-","p">>
L_ADD    == <<"+","q">>
L_OK     == <<"o","k">>

TtyLine(l) == l \o <<CR, LF>>

HUNK_FOO == TtyLine(L_MINUS) \o TtyLine(L_PLUS) \o TtyLine(L_HUNK)
            \o TtyLine(L_CTX) \o TtyLine(L_FOO)
HUNK_BAR == TtyLine(L_HUNK) \o TtyLine(L_CTX) \o TtyLine(L_BAR)
HUNK_TWO == TtyLine(L_HUNK) \o TtyLine(L_DEL) \o TtyLine(L_CTX) \o TtyLine(L_ADD)

\* A script is what the child does: segments of output, each optionally
\* followed by a blocking read of one input line; then it exits.
Seg(text, wait) == [text |-> text, wait |-> wait]

SCRIPT_FOO_BAR == <<Seg(HUNK_FOO \o PROMPT, TRUE), Seg(HUNK_BAR \o PROMPT, TRUE)>>
SCRIPT_TWO_TWO == <<Seg(HUNK_TWO \o PROMPT, TRUE), Seg(HUNK_TWO \o PROMPT, TRUE),
                    Seg(TtyLine(L_OK), FALSE)>>
SCRIPT_BARE    == <<Seg(PROMPT, TRUE), Seg(HUNK_TWO \o PROMPT, TRUE)>>
SCRIPT_TWO_FOO == <<Seg(HUNK_TWO \o PROMPT, TRUE), Seg(HUNK_FOO \o PROMPT, TRUE)>>

ProcScripts ==
    { <<Seg(<<"a","b",CR,LF,"c">>, TRUE), Seg(<<"d",CR,LF>>, FALSE)>>,
      <<Seg(<<"a",CR,LF>>, FALSE), Seg(<<"b","c">>, TRUE), Seg(<<"d">>, TRUE)>> }

\* The ignore mapping loaded from the store file: an ordered mapping, a
\* sequence of <<path, suggestions>>.
POLICY_EMPTY == <<>>
POLICY_FOO   == << <<A_TXT, << <<L_FOO>> >> >> >>

\* What a review session starts from: the child's script and the policy.
ReviewScenarios ==
    { <<SCRIPT_FOO_BAR, POLICY_FOO>>, <<SCRIPT_FOO_BAR, POLICY_EMPTY>>,
      <<SCRIPT_TWO_TWO, POLICY_FOO>>, <<SCRIPT_BARE, POLICY_EMPTY>>,
      <<SCRIPT_TWO_FOO, POLICY_FOO>> }

ProcScenarios == {<<sc, POLICY_EMPTY>> : sc \in ProcScripts}

(***************************************************************************)
(* The store file and the options of cli                                   *)
(***************************************************************************)
\* A file that does not exist: open() raises FileNotFoundError.
MISSING == <<"missing">>

\* json.dumps of the mapping: keys become strings (None becomes "null"),
\* lists of lists of str are written as they are.
JsonKey(k) == IF k = None THEN <<"n","u","l","l">> ELSE k
JsonDumps(ign) ==
    <<"json", [i \in DOMAIN ign |-> <<JsonKey(ign[i][1]), ign[i][2]>>]>>

\* json.loads of a text json.dumps wrote.
JsonLoads(content) == content[2]

\* The values of --tool-id on the command line.
TOOL_BLK == <<"b","l","k">>
TOOL_SRT == <<"s","r","t">>
ToolIds  == {TOOL_BLK, TOOL_SRT}

\* IgnoredSuggestionStore.__init__: the path.  The name with a tool id is a
\* plain string literal, braces included.
StorePath(tool_id) ==
    IF Truthy(tool_id) THEN ".ignores.{tool_id}.json" ELSE ".ignores.json"

StoreFiles == {StorePath(t) : t \in ToolIds \cup {None}}

\* IgnoredSuggestionStore.__init__: the mapping loaded.
StoreLoad(fs, file) ==
    IF fs[file] = MISSING THEN <<>> ELSE JsonLoads(fs[file])

\* A file system in which only the store file of no tool id exists.
FilesWith(ign) ==
    [f \in StoreFiles |-> IF f = StorePath(None) THEN JsonDumps(ign)
                          ELSE MISSING]

\* opts of cli when no option is given.
NO_OPTIONS == [tool_id |-> None, autopurge |-> FALSE]

\* What `git checkout -p` prints in the runs of cli.
SCRIPT_NONE == <<>>
SCRIPT_TWO  == <<Seg(HUNK_TWO \o PROMPT, TRUE)>>
SCRIPT_FOO  == <<Seg(HUNK_FOO \o PROMPT, TRUE)>>

\* What a run of cli starts from: the output of `git checkout -p`, the
\* store files, the options.
CliScenarios ==
    { <<SCRIPT_NONE, FilesWith(POLICY_EMPTY), NO_OPTIONS>>,
      <<SCRIPT_TWO,
        [f \in StoreFiles |-> IF f = StorePath(TOOL_SRT)
                              THEN JsonDumps(POLICY_FOO) ELSE MISSING],
        [tool_id |-> TOOL_BLK, autopurge |-> TRUE]>>,
      <<SCRIPT_FOO, FilesWith(POLICY_FOO),
        [tool_id |-> None, autopurge |-> TRUE]>>,
      <<SCRIPT_FOO, FilesWith(POLICY_FOO), NO_OPTIONS>> }

(***************************************************************************)
(* Bounds                                                                  *)
(***************************************************************************)
\* Child writes that stop in the middle of a segment (partial flushes).
MaxCuts == 1
\* writeline calls of the client in ProcSpec.
MaxEnqueue == 2

(***************************************************************************)
(* State                                                                   *)
(***************************************************************************)
VARIABLES
    script,        \* the child's script
    seg, off,      \* child position: segment and characters of it written
    child,         \* "run" | "wait" | "exited"
    cuts,          \* partial flushes so far
    ptyOut,        \* characters readable on the master side
    childUnread,   \* how many of them the child wrote (the rest is echo)
    childIn,       \* input lines delivered to the slave side, not yet read
    emitted,       \* history: every character that became readable
    written,       \* history: every character written to the master
    pc,            \* Process.__iter__: "poll" | "yield" | "write" | "done" | "abandoned"
    lines,         \* lines of the current read not yet yielded
    xset,          \* select reported the error condition
    stdin_queue,   \* Process._stdin_queue
    fds,           \* the descriptors of pty.openpty()
    reaped,        \* the child has been waited for
    yielded,       \* history: lines yielded by __iter__ (in the review
                   \* session: since the last decision point)
    enqueued,      \* history: lines passed to writeline
    buffer, path,  \* locals of revert_ignored_changes
    epc,           \* revert_ignored_changes: "running" or the exception raised
    decisions,     \* history: the record of the latest decision point
    ignores,       \* IgnoredSuggestionStore._ignores
    doc,           \* a diff under construction: files with their hunks
    result,        \* None, or the changes extracted from the rendered diff
    inLines,       \* a text given to extract_changes, line by line
    inDefault,     \* the default_path given with it
    used,          \* IgnoredSuggestionStore._used
    asked,         \* history: the pairs a membership test was evaluated on
    added,         \* history: the pairs for which add() returned
    store,         \* IgnoredSuggestionStore: path and purge_unused
    opts,          \* cli: tool_id and autopurge
    files,         \* the store files on disk
    cpc,           \* cli: "review" | "remember" | "exit" | "restore" |
                   \* "reset" | "end" | "raised"
    cexc,          \* cli: the exception propagating, "" when none
    cleanup        \* history: the commands run after the with block

vars == <<script, seg, off, child, cuts, ptyOut, childUnread, childIn, emitted,
          written, pc, lines, xset, stdin_queue, fds, reaped, yielded,
          enqueued, buffer, path, epc, decisions, ignores, doc, result,
          inLines, inDefault, used, asked, added, store, opts, files, cpc,
          cexc, cleanup>>

childVars  == <<script, seg, off, child, cuts>>
engineVars == <<buffer, path, epc, decisions, ignores, used, asked>>
procVars   == <<ptyOut, childUnread, childIn, emitted, written, pc, lines, xset,
                stdin_queue, fds, reaped, yielded, enqueued>>
diffVars   == <<doc, result>>
textVars   == <<inLines, inDefault>>
cliVars    == <<added, store, opts, files, cpc, cexc, cleanup>>

\* The state when revert_ignored_changes starts: cli has read its options,
\* constructed the store from the files, entered the with block and run the
\* tool; Process has been constructed.
InitCli(sc, fs, o) ==
    /\ script = sc
    /\ opts = o /\ files = fs
    /\ store = [path |-> StorePath(o.tool_id), purge_unused |-> o.autopurge]
    /\ ignores = StoreLoad(fs, StorePath(o.tool_id))
    /\ used = <<>> /\ asked = {} /\ added = <<>>
    /\ cpc = "review" /\ cexc = "" /\ cleanup = <<>>
    /\ seg = 1 /\ off = 0 /\ child = "run" /\ cuts = 0
    /\ ptyOut = <<>> /\ childUnread = 0 /\ childIn = <<>>
    /\ emitted = <<>> /\ written = <<>>
    /\ pc = "poll" /\ lines = <<>> /\ xset = FALSE
    /\ stdin_queue = <<>>
    /\ fds = [master |-> "open", slave |-> "open"]
    /\ reaped = FALSE
    /\ yielded = <<>> /\ enqueued = <<>>
    /\ buffer = <<>> /\ path = None /\ epc = "running"
    /\ decisions = <<>>
    /\ doc = <<>> /\ result = None
    /\ inLines = <<>> /\ inDefault = None

\* A scenario <<script, policy>>: no options, the policy in the store file.
InitWith(scenarios) ==
    \E sc \in scenarios : InitCli(sc[1], FilesWith(sc[2]), NO_OPTIONS)

(***************************************************************************)
(* The child and the terminal                                              *)
(***************************************************************************)
\* The child is followed while the line-production loop is alive; what it
\* does after the loop has ended is seen by nothing here.
LoopLive == pc \notin {"done", "abandoned"}

\* The child writes the next k characters of its current segment.
ChildWrite ==
    /\ LoopLive
    /\ child = "run" /\ seg <= Len(script)
    /\ \E k \in 1..(Len(script[seg].text) - off) :
         LET rest == Len(script[seg].text) - off
             data == SubSeq(script[seg].text, off + 1, off + k)
         IN  /\ k < rest => cuts < MaxCuts
             /\ cuts' = IF k < rest THEN cuts + 1 ELSE cuts
             /\ ptyOut' = ptyOut \o data
             /\ emitted' = emitted \o data
             /\ childUnread' = childUnread + k
             /\ IF k < rest
                THEN /\ off' = off + k /\ UNCHANGED <<seg, child>>
                ELSE IF script[seg].wait
                THEN /\ off' = off + k /\ child' = "wait" /\ UNCHANGED seg
                ELSE /\ seg' = seg + 1 /\ off' = 0 /\ UNCHANGED child
    /\ UNCHANGED <<script, childIn, written, pc, lines, xset, stdin_queue, fds,
                   reaped, yielded, enqueued>>
    /\ UNCHANGED engineVars /\ UNCHANGED diffVars /\ UNCHANGED textVars /\ UNCHANGED cliVars

\* The child, blocked reading its input, receives a line and goes on.
ChildRead ==
    /\ LoopLive
    /\ child = "wait" /\ childIn # <<>>
    /\ childIn' = Tail(childIn)
    /\ child' = "run" /\ seg' = seg + 1 /\ off' = 0
    /\ UNCHANGED <<script, cuts, ptyOut, childUnread, emitted, written, pc,
                   lines, xset, stdin_queue, fds, reaped, yielded, enqueued>>
    /\ UNCHANGED engineVars /\ UNCHANGED diffVars /\ UNCHANGED textVars /\ UNCHANGED cliVars

\* The child has run its script and exits.
ChildExit ==
    /\ LoopLive
    /\ child = "run" /\ seg > Len(script)
    /\ child' = "exited"
    /\ UNCHANGED <<script, seg, off, cuts, ptyOut, childUnread, childIn, emitted,
                   written, pc, lines, xset, stdin_queue, fds, reaped, yielded,
                   enqueued>>
    /\ UNCHANGED engineVars /\ UNCHANGED diffVars /\ UNCHANGED textVars /\ UNCHANGED cliVars

(***************************************************************************)
(* Process                                                                 *)
(***************************************************************************)
\* A loop that tests `if r:` before `if x:`.
PollBranch_ReadFirst(exited, x, r) ==
    IF exited THEN "exit"
    ELSE IF r THEN "read"
    ELSE IF x THEN "error"
    ELSE "idle"

\* The order of the tests of one loop iteration: the while condition, then
\* `if x: return`, then `if r:`.
PollBranch(exited, x, r) ==
    IF exited THEN "exit"
    ELSE IF x THEN "error"
    ELSE IF r THEN "read"
    ELSE "idle"

\* os.read(self.master, 1_000_000): everything readable (the texts here are
\* far shorter than the limit).
PtyRead(buf) == [data |-> buf, rest |-> <<>>]

\* The pieces of a read yielded last first.
Lines_Reversed(data) ==
    LET pieces == Split(data)
    IN  [i \in 1..Len(pieces) |-> RStripCR(pieces[Len(pieces) + 1 - i])]

\* (line.rstrip("\r") for line in data.split("\n"))
Lines(data) ==
    LET pieces == Split(data)
    IN  [i \in 1..Len(pieces) |-> RStripCR(pieces[i])]

\* self._stdin_queue.pop(): the newest line first.
QueuePop_Last(q) == [line |-> q[Len(q)], rest |-> SubSeq(q, 1, Len(q) - 1)]

\* self._stdin_queue.pop(0)
QueuePop(q) == [line |-> Head(q), rest |-> Tail(q)]

\* self._stdin_queue.append(line)
writeline(q, line) == Append(q, line)

\* while self.proc.poll() is None: fails; Popen.poll has reaped the child.
IterExit ==
    /\ pc = "poll"
    /\ \E x \in BOOLEAN : PollBranch(child = "exited", x, ptyOut # <<>>) = "exit"
    /\ pc' = "done" /\ reaped' = TRUE
    /\ UNCHANGED <<ptyOut, childUnread, childIn, emitted, written, lines, xset,
                   stdin_queue, fds, yielded, enqueued>>
    /\ UNCHANGED childVars /\ UNCHANGED engineVars /\ UNCHANGED diffVars /\ UNCHANGED textVars /\ UNCHANGED cliVars

\* select reports the error condition: return.
IterError ==
    /\ pc = "poll"
    /\ PollBranch(child = "exited", TRUE, ptyOut # <<>>) = "error"
    /\ xset' = TRUE
    /\ pc' = "done"
    /\ UNCHANGED <<ptyOut, childUnread, childIn, emitted, written, lines,
                   stdin_queue, fds, reaped, yielded, enqueued>>
    /\ UNCHANGED childVars /\ UNCHANGED engineVars /\ UNCHANGED diffVars /\ UNCHANGED textVars /\ UNCHANGED cliVars

\* The read branch is taken: read what is there and split it into lines.
IterRead ==
    /\ pc = "poll"
    /\ \E x \in BOOLEAN :
         /\ PollBranch(child = "exited", x, ptyOut # <<>>) = "read"
         /\ xset' = (xset \/ x)
    /\ pc' = "yield"
    /\ lines' = Lines(PtyRead(ptyOut).data)
    /\ ptyOut' = PtyRead(ptyOut).rest
    /\ childUnread' = 0
    /\ UNCHANGED <<childIn, emitted, written, stdin_queue, fds, reaped,
                   yielded, enqueued>>
    /\ UNCHANGED childVars /\ UNCHANGED engineVars /\ UNCHANGED diffVars /\ UNCHANGED textVars /\ UNCHANGED cliVars

\* Nothing to read: go on to the write test.
IterIdle ==
    /\ pc = "poll"
    /\ \E x \in BOOLEAN :
         /\ PollBranch(child = "exited", x, ptyOut # <<>>) = "idle"
         /\ xset' = (xset \/ x)
    /\ pc' = "write"
    /\ UNCHANGED <<ptyOut, childUnread, childIn, emitted, written, lines,
                   stdin_queue, fds, reaped, yielded, enqueued>>
    /\ UNCHANGED childVars /\ UNCHANGED engineVars /\ UNCHANGED diffVars /\ UNCHANGED textVars /\ UNCHANGED cliVars

\* if w and self._stdin_queue: pop a line and write it with a newline.  The
\* terminal delivers the line to the child and echoes it back as output.
\* w is select's result; nothing reads it before this point, so its value is
\* chosen here.
IterWrite ==
    /\ pc = "write"
    /\ pc' = "poll"
    /\ \E w \in BOOLEAN :
         IF w /\ stdin_queue # <<>>
         THEN LET p == QueuePop(stdin_queue)
              IN  /\ stdin_queue' = p.rest
                  /\ written' = written \o p.line \o <<LF>>
                  /\ childIn' = Append(childIn, p.line)
                  /\ ptyOut' = ptyOut \o TtyLine(p.line)
                  /\ emitted' = emitted \o TtyLine(p.line)
         ELSE UNCHANGED <<stdin_queue, written, childIn, ptyOut, emitted>>
    /\ UNCHANGED <<childUnread, lines, xset, fds, reaped, yielded, enqueued>>
    /\ UNCHANGED childVars /\ UNCHANGED engineVars /\ UNCHANGED diffVars /\ UNCHANGED textVars /\ UNCHANGED cliVars

\* The generator yields the next line.
YieldLine ==
    /\ pc = "yield" /\ lines # <<>>
    /\ lines' = Tail(lines)

(***************************************************************************)
(* A client that only iterates and calls writeline                         *)
(***************************************************************************)
ClientLines == {<<"y">>, <<"n">>}

\* The loop body of a client: it may pass one line to writeline.
ClientStep ==
    /\ YieldLine
    /\ yielded' = Append(yielded, Head(lines))
    /\ pc' = IF lines' = <<>> THEN "write" ELSE "yield"
    /\ \/ UNCHANGED <<stdin_queue, enqueued>>
       \/ /\ Len(enqueued) < MaxEnqueue
          /\ \E l \in ClientLines :
               /\ stdin_queue' = writeline(stdin_queue, l)
               /\ enqueued' = Append(enqueued, l)
    /\ UNCHANGED <<ptyOut, childUnread, childIn, emitted, written, xset, fds,
                   reaped>>
    /\ UNCHANGED childVars /\ UNCHANGED engineVars /\ UNCHANGED diffVars /\ UNCHANGED textVars /\ UNCHANGED cliVars

ProcInit == InitWith(ProcScenarios)

ProcNext ==
    \/ ChildWrite \/ ChildRead \/ ChildExit
    \/ IterExit \/ IterError \/ IterRead \/ IterIdle \/ IterWrite
    \/ ClientStep

ProcSpec == ProcInit /\ [][ProcNext]_vars

(***************************************************************************)
(* IgnoredSuggestionStore                                                  *)
(***************************************************************************)
\* The methods the class defines (the membership method is spelled with
\* three trailing underscores).
StoreMethods == {"__init__", "__enter__", "__exit__", "add", "__contains___"}

\* __enter__: `pass`, so the `with ... as` target is bound to None.
Store__enter__ == None

\* self._ignores.get(path, [])
RECURSIVE IgnoresGet(_, _)
IgnoresGet(ign, p) ==
    IF ign = <<>> THEN <<>>
    ELSE IF Head(ign)[1] = p THEN Head(ign)[2]
    ELSE IgnoresGet(Tail(ign), p)

\* __contains___(self, change): the value returned.
Store__contains___(ign, change) ==
    \E i \in DOMAIN IgnoresGet(ign, change[1]) :
        IgnoresGet(ign, change[1])[i] = change[2]

\* __contains___(self, change): what it leaves in _used.
Store__contains___used(u, purge_unused, change) ==
    IF purge_unused THEN Append(u, change) ELSE u

\* add(self, path, suggestion)
Store_add(ign, p, suggestion) ==
    IF \E i \in DOMAIN ign : ign[i][1] = p
    THEN [i \in DOMAIN ign |->
            IF ign[i][1] = p THEN <<p, Append(ign[i][2], suggestion)>>
            ELSE ign[i]]
    ELSE Append(ign, <<p, <<suggestion>> >>)

\* __exit__: the suggestions of one path that are in _used.
UsedOf(p, suggestions, u) ==
    SelectSeq(suggestions,
              LAMBDA sg : \E i \in DOMAIN u : u[i] = <<p, sg>>)

\* __exit__: purged, built path by path; setdefault creates a path's list
\* only when a suggestion is appended to it.
RECURSIVE Purged(_, _)
Purged(ign, u) ==
    IF ign = <<>> THEN <<>>
    ELSE LET kept == UsedOf(Head(ign)[1], Head(ign)[2], u)
         IN  (IF kept = <<>> THEN <<>> ELSE << <<Head(ign)[1], kept>> >>)
             \o Purged(Tail(ign), u)

\* __exit__: the mapping it leaves in _ignores and writes to the file.  It
\* returns None, so an exception raised in the with block propagates.
Store__exit__(ign, u, purge_unused) ==
    IF purge_unused THEN Purged(ign, u) ELSE ign

\* `item in container`: None supports no membership test, and neither does
\* an object whose class defines none of __contains__, __iter__,
\* __getitem__.
MembershipTest(container, item, ign) ==
    IF container = None \/ "__contains__" \notin StoreMethods
    THEN [raised |-> "TypeError", value |-> FALSE]
    ELSE [raised |-> "", value |-> Store__contains___(ign, item)]

(***************************************************************************)
(* revert_ignored_changes                                                  *)
(***************************************************************************)
\* The object cli passes: the target of its with statement.
permanently_ignored == Store__enter__

\* buffer += line, the newline forgotten.
BufferAppend_NoNewline(buf, line) == buf \o line

\* buffer += f"{line}\n"
BufferAppend(buf, line) == buf \o line \o <<LF>>

\* A decision that never answers 's': it takes the first change and looks
\* it up.
Decide_FirstChange(changes, curpath, container, ign) ==
    IF changes = <<>> THEN
        [writes |-> <<>>, newpath |-> curpath, raised |-> "",
         queried |-> FALSE, bp |-> TRUE]
    ELSE
        LET m == MembershipTest(container, changes[1], ign)
        IN  [writes |-> IF m.raised # "" THEN <<>>
                        ELSE IF m.value THEN << <<"y">> >> ELSE << <<"n">> >>,
             newpath |-> changes[1][1], raised |-> m.raised,
             queried |-> TRUE, bp |-> FALSE]

\* A decision that remembers the path of the first change even when it
\* answers 's'.
Decide_SplitRemembers(changes, curpath, container, ign) ==
    IF Len(changes) > 1 THEN
        [writes |-> << <<"s">> >>, newpath |-> changes[1][1], raised |-> "",
         queried |-> FALSE, bp |-> FALSE]
    ELSE IF changes = <<>> THEN
        [writes |-> <<>>, newpath |-> curpath, raised |-> "",
         queried |-> FALSE, bp |-> TRUE]
    ELSE
        LET m == MembershipTest(container, changes[1], ign)
        IN  [writes |-> IF m.raised # "" THEN <<>>
                        ELSE IF m.value THEN << <<"y">> >> ELSE << <<"n">> >>,
             newpath |-> changes[1][1], raised |-> m.raised,
             queried |-> TRUE, bp |-> FALSE]

\* The branches taken at a decision point.
Decide(changes, curpath, container, ign) ==
    IF Len(changes) > 1 THEN
        [writes |-> << <<"s">> >>, newpath |-> curpath, raised |-> "",
         queried |-> FALSE, bp |-> FALSE]
    ELSE IF changes = <<>> THEN
        [writes |-> <<>>, newpath |-> curpath, raised |-> "",
         queried |-> FALSE, bp |-> TRUE]
    ELSE
        LET m == MembershipTest(container, changes[1], ign)
        IN  [writes |-> IF m.raised # "" THEN <<>>
                        ELSE IF m.value THEN << <<"y">> >> ELSE << <<"n">> >>,
             newpath |-> changes[1][1], raised |-> m.raised,
             queried |-> TRUE, bp |-> FALSE]

\* breakpoint(): the debugger session ends with `continue` (or the hook is
\* disabled and the call returns at once), or with `quit`, which raises.
BreakpointOutcomes == {"continue", "BdbQuit"}

NextPc(ls) == IF ls = <<>> THEN "write" ELSE "yield"

\* The loop body for a line without the phrase.
EngineAppend ==
    /\ YieldLine
    /\ ~Contains(Head(lines), PHRASE)
    /\ buffer' = BufferAppend(buffer, Head(lines))
    /\ yielded' = Append(yielded, Head(lines))
    /\ pc' = NextPc(lines')
    /\ UNCHANGED <<ptyOut, childUnread, childIn, emitted, written, xset,
                   stdin_queue, fds, reaped, enqueued, path, epc, decisions,
                   ignores, used, asked>>
    /\ UNCHANGED childVars /\ UNCHANGED diffVars /\ UNCHANGED textVars /\ UNCHANGED cliVars

\* The loop body for a line with the phrase: a decision point.
EngineDecide ==
    /\ YieldLine
    /\ Contains(Head(lines), PHRASE)
    /\ LET changes == extract_changes(buffer, path)
           d == Decide(changes, path, permanently_ignored, ignores)
       IN  \E o \in (IF d.bp THEN BreakpointOutcomes ELSE {"continue"}) :
             LET exc == IF d.raised # "" THEN d.raised
                        ELSE IF o = "BdbQuit" THEN o ELSE ""
             IN  /\ path' = d.newpath
                 /\ asked' = IF d.queried THEN asked \cup {changes[1]}
                             ELSE asked
                 /\ used' = IF d.queried /\ d.raised = ""
                            THEN Store__contains___used(
                                     used, store.purge_unused, changes[1])
                            ELSE used
                 /\ stdin_queue' = IF d.writes = <<>> THEN stdin_queue
                                   ELSE writeline(stdin_queue, d.writes[1])
                 /\ enqueued' = enqueued \o d.writes
                 /\ yielded' = <<>>
                 /\ decisions' =
                        << [no |-> IF decisions = <<>> THEN 1
                                   ELSE decisions[1].no + 1,
                            text |-> buffer, default |-> path,
                            changes |-> changes,
                            before |-> Len(enqueued),
                            queried |-> d.queried] >>
                 /\ IF exc = ""
                    THEN /\ buffer' = <<>>
                         /\ pc' = NextPc(lines') /\ UNCHANGED epc
                    ELSE /\ epc' = exc /\ pc' = "abandoned"
                         /\ UNCHANGED buffer
    /\ UNCHANGED <<ptyOut, childUnread, childIn, emitted, written, xset, fds,
                   reaped, ignores>>
    /\ UNCHANGED childVars /\ UNCHANGED diffVars /\ UNCHANGED textVars /\ UNCHANGED cliVars

(***************************************************************************)
(* The review session                                                      *)
(***************************************************************************)
Init == InitWith(ReviewScenarios)

Next ==
    \/ ChildWrite \/ ChildRead \/ ChildExit
    \/ IterExit \/ IterError \/ IterRead \/ IterIdle \/ IterWrite
    \/ EngineAppend \/ EngineDecide

Spec == Init /\ [][Next]_vars

(***************************************************************************)
(* extract_changes applied to well-formed diffs                            *)
(***************************************************************************)
B_PY == <<"b",".","p","y">>
DiffPaths == {A_TXT, B_PY}

\* The removal of a line whose text is "-- a/x".
L_DEL_DASHES == <<"-">> \o <<"-","-"," ","a","/","x">>

\* The +/- lines of a hunk: one contiguous run.
HunkBodies == { <<L_DEL, L_ADD>>, <<L_FOO>>, <<L_DEL_DASHES, L_ADD>> }

\* A hunk: its body, with or without a leading and a trailing context line.
Hunks == [lead : BOOLEAN, body : HunkBodies, trail : BOOLEAN]

\* Hunks in a diff, all files together.
MaxHunks == 3

L_DIFF(p)  == DIFF_PREFIX \o <<"-","-","g","i","t"," ","a","/">> \o p
              \o <<" ","b","/">> \o p
L_INDEX    == INDEX_PREFIX \o <<"1",".",".","2">>

HunkLines(h) ==
    <<L_HUNK>> \o (IF h.lead THEN <<L_CTX>> ELSE <<>>) \o h.body
    \o (IF h.trail THEN <<L_CTX>> ELSE <<>>)

RECURSIVE HunksLines(_)
HunksLines(hs) ==
    IF hs = <<>> THEN <<>> ELSE HunkLines(Head(hs)) \o HunksLines(Tail(hs))

FileLines(f) ==
    <<L_DIFF(f.path), L_INDEX, A_MARKER \o f.path, B_MARKER \o f.path>>
    \o HunksLines(f.hunks)

RECURSIVE DocLines(_)
DocLines(d) == IF d = <<>> THEN <<>> ELSE FileLines(Head(d)) \o DocLines(Tail(d))

\* The text `git diff` prints for the diff: every line ends "\n".
RECURSIVE Render(_)
Render(ls) == IF ls = <<>> THEN <<>> ELSE Head(ls) \o <<LF>> \o Render(Tail(ls))

RECURSIVE HunkCount(_)
HunkCount(d) == IF d = <<>> THEN 0 ELSE Len(Head(d).hunks) + HunkCount(Tail(d))

\* For each hunk of the diff, in order, the path its file declares.
RECURSIVE HunkPaths(_)
HunkPaths(d) ==
    IF d = <<>> THEN <<>>
    ELSE [i \in 1..Len(Head(d).hunks) |-> Head(d).path] \o HunkPaths(Tail(d))

\* A new file section starts, with its first hunk.
AddFile ==
    /\ result = None
    /\ HunkCount(doc) < MaxHunks
    /\ \E p \in DiffPaths, h \in Hunks :
         /\ \A i \in DOMAIN doc : doc[i].path # p
         /\ doc' = Append(doc, [path |-> p, hunks |-> <<h>>])
    /\ UNCHANGED result
    /\ UNCHANGED childVars /\ UNCHANGED procVars /\ UNCHANGED engineVars
    /\ UNCHANGED textVars /\ UNCHANGED cliVars

\* The current file gets another hunk.
AddHunk ==
    /\ result = None
    /\ doc # <<>>
    /\ HunkCount(doc) < MaxHunks
    /\ \E h \in Hunks :
         doc' = [doc EXCEPT ![Len(doc)].hunks = Append(@, h)]
    /\ UNCHANGED result
    /\ UNCHANGED childVars /\ UNCHANGED procVars /\ UNCHANGED engineVars
    /\ UNCHANGED textVars /\ UNCHANGED cliVars

\* list(extract_changes(text)) on the rendered diff, no default path, as
\* remember_discarded_changes calls it.
RunExtract ==
    /\ result = None
    /\ doc # <<>>
    /\ result' = extract_changes(Render(DocLines(doc)), None)
    /\ UNCHANGED doc
    /\ UNCHANGED childVars /\ UNCHANGED procVars /\ UNCHANGED engineVars
    /\ UNCHANGED textVars /\ UNCHANGED cliVars

ExtractInit == InitWith({<< <<>>, POLICY_EMPTY >>})

ExtractNext == AddFile \/ AddHunk \/ RunExtract

ExtractSpec == ExtractInit /\ [][ExtractNext]_vars

(***************************************************************************)
(* extract_changes on arbitrary texts (TextSpec): the buffers of           *)
(* revert_ignored_changes are whatever lines the terminal delivered, so    *)
(* the text is any sequence of lines of the kinds the loop tells apart,    *)
(* with or without a default path.                                         *)
(***************************************************************************)
\* Lines of a text.
MaxLines == 4

\* One line of each kind extract_changes distinguishes.
TextLines == { <<"y">>, L_DIFF(A_TXT), L_INDEX, L_HUNK, A_MARKER \o B_PY,
               B_MARKER \o B_PY, L_CTX, L_ADD, L_DEL }

\* The default paths a caller passes: none, or a remembered path.
DefaultPaths == {None, A_TXT}

\* The text grows by one line.
TextAppend ==
    /\ result = None
    /\ Len(inLines) < MaxLines
    /\ \E l \in TextLines : inLines' = Append(inLines, l)
    /\ UNCHANGED <<inDefault, result, doc>> /\ UNCHANGED cliVars
    /\ UNCHANGED childVars /\ UNCHANGED procVars /\ UNCHANGED engineVars

\* list(extract_changes(text, default_path=d)), as revert_ignored_changes
\* calls it.
TextExtract ==
    /\ result = None
    /\ \E d \in DefaultPaths :
         /\ inDefault' = d
         /\ result' = extract_changes(Render(inLines), d)
    /\ UNCHANGED <<inLines, doc>> /\ UNCHANGED cliVars
    /\ UNCHANGED childVars /\ UNCHANGED procVars /\ UNCHANGED engineVars

TextInit == InitWith({<< <<>>, POLICY_EMPTY >>})

TextNext == TextAppend \/ TextExtract

TextSpec == TextInit /\ [][TextNext]_vars

(***************************************************************************)
(* cli, from the start of revert_ignored_changes to its end (CliSpec)      *)
(***************************************************************************)
\* What `git diff --no-ext-diff` prints after `git add -p`: nothing, or the
\* hunks the user did not stage.
GitDiffs ==
    { <<>>,
      << [path |-> A_TXT,
          hunks |-> << [lead |-> TRUE, body |-> <<L_FOO>>, trail |-> FALSE] >>] >>,
      << [path |-> B_PY,
          hunks |-> << [lead |-> FALSE, body |-> <<L_DEL, L_ADD>>,
                        trail |-> TRUE] >>] >> }

\* target.add(path, change): None has no attribute `add`.
CallAdd(target, ign, p, suggestion) ==
    IF target = None \/ "add" \notin StoreMethods
    THEN [raised |-> "AttributeError", ignores |-> ign]
    ELSE [raised |-> "", ignores |-> Store_add(ign, p, suggestion)]

\* The for loop of remember_discarded_changes over the extracted pairs; done
\* is the pairs for which add() has returned.
RECURSIVE RememberLoop(_, _, _, _)
RememberLoop(target, ign, pairs, done) ==
    IF pairs = <<>> THEN [raised |-> "", ignores |-> ign, done |-> done]
    ELSE LET c == CallAdd(target, ign, Head(pairs)[1], Head(pairs)[2])
         IN  IF c.raised # ""
             THEN [raised |-> c.raised, ignores |-> ign, done |-> done]
             ELSE RememberLoop(target, c.ignores, Tail(pairs),
                               Append(done, Head(pairs)))

\* revert_ignored_changes returned: `git add -p` runs with the user.
CliAddPatch ==
    /\ cpc = "review" /\ pc = "done" /\ epc = "running"
    /\ cpc' = "remember"
    /\ UNCHANGED <<added, store, opts, files, cexc, cleanup>>
    /\ UNCHANGED childVars /\ UNCHANGED procVars /\ UNCHANGED engineVars
    /\ UNCHANGED diffVars /\ UNCHANGED textVars

\* revert_ignored_changes raised: the with block is left.
CliReviewRaised ==
    /\ cpc = "review" /\ epc # "running"
    /\ cpc' = "exit" /\ cexc' = epc
    /\ UNCHANGED <<added, store, opts, files, cleanup>>
    /\ UNCHANGED childVars /\ UNCHANGED procVars /\ UNCHANGED engineVars
    /\ UNCHANGED diffVars /\ UNCHANGED textVars

\* remember_discarded_changes(permanently_ignored)
CliRemember ==
    /\ cpc = "remember"
    /\ \E d \in GitDiffs :
         LET pairs == extract_changes(Render(DocLines(d)), None)
             r     == RememberLoop(permanently_ignored, ignores, pairs, <<>>)
         IN  /\ doc' = d /\ result' = pairs
             /\ ignores' = r.ignores
             /\ added' = added \o r.done
             /\ cexc' = r.raised
    /\ cpc' = "exit"
    /\ UNCHANGED <<store, opts, files, cleanup>>
    /\ UNCHANGED <<buffer, path, epc, decisions, used, asked>>
    /\ UNCHANGED childVars /\ UNCHANGED procVars /\ UNCHANGED textVars

\* The with block is left, normally or by an exception: __exit__.
CliExit ==
    /\ cpc = "exit"
    /\ ignores' = Store__exit__(ignores, used, store.purge_unused)
    /\ files' = [files EXCEPT ![store.path] = JsonDumps(ignores')]
    /\ cpc' = IF cexc = "" THEN "restore" ELSE "raised"
    /\ UNCHANGED <<added, store, opts, cexc, cleanup>>
    /\ UNCHANGED <<buffer, path, epc, decisions, used, asked>>
    /\ UNCHANGED childVars /\ UNCHANGED procVars
    /\ UNCHANGED diffVars /\ UNCHANGED textVars

\* subprocess.run(["git", "restore", "."])
CliRestore ==
    /\ cpc = "restore"
    /\ cleanup' = Append(cleanup, "restore")
    /\ cpc' = "reset"
    /\ UNCHANGED <<added, store, opts, files, cexc>>
    /\ UNCHANGED childVars /\ UNCHANGED procVars /\ UNCHANGED engineVars
    /\ UNCHANGED diffVars /\ UNCHANGED textVars

\* subprocess.run(["git", "reset"])
CliReset ==
    /\ cpc = "reset"
    /\ cleanup' = Append(cleanup, "reset")
    /\ cpc' = "end"
    /\ UNCHANGED <<added, store, opts, files, cexc>>
    /\ UNCHANGED childVars /\ UNCHANGED procVars /\ UNCHANGED engineVars
    /\ UNCHANGED diffVars /\ UNCHANGED textVars

CliInit == \E sc \in CliScenarios : InitCli(sc[1], sc[2], sc[3])

CliNext ==
    \/ ChildWrite \/ ChildRead \/ ChildExit
    \/ IterExit \/ IterError \/ IterRead \/ IterIdle \/ IterWrite
    \/ EngineAppend \/ EngineDecide
    \/ CliAddPatch \/ CliReviewRaised \/ CliRemember \/ CliExit
    \/ CliRestore \/ CliReset

CliSpec == CliInit /\ [][CliNext]_vars

(***************************************************************************)
(* Properties of the review session (Spec)                                 *)
(***************************************************************************)
\* "".join(line + "\n" for line in ls)
RECURSIVE JoinLF(_)
JoinLF(ls) == IF ls = <<>> THEN <<>> ELSE Head(ls) \o <<LF>> \o JoinLF(Tail(ls))

\* The lines passed to writeline since the decision d was reached: its
\* answers, no line being enqueued between two decisions.
AnswersTo(d) == SubSeq(enqueued, d.before + 1, Len(enqueued))

\* C1: every decision whose buffered text extracts to exactly one
\* (path, change) pair enqueues exactly one answer: 'y' if the pair is in
\* the ignore policy, 'n' otherwise.
C1_AnswerFollowsPolicy ==
    \A i \in DOMAIN decisions :
        Len(decisions[i].changes) = 1 =>
            AnswersTo(decisions[i]) =
                << IF Store__contains___(ignores, decisions[i].changes[1])
                   THEN <<"y">> ELSE <<"n">> >>

\* C2: every decision whose buffered text extracts to more than one change
\* enqueues exactly one answer, 's', and does not query the policy.
C2_AmbiguousAnswersSplit ==
    \A i \in DOMAIN decisions :
        Len(decisions[i].changes) > 1 =>
            /\ AnswersTo(decisions[i]) = << <<"s">> >>
            /\ ~decisions[i].queried

\* C2 witness: a prompt whose text held two runs separated by a context
\* line has been decided.
C2_Witness ==
    \E i \in DOMAIN decisions :
        /\ Len(decisions[i].changes) = 2
        /\ decisions[i].changes[1][2] = <<L_DEL>>
        /\ decisions[i].changes[2][2] = <<L_ADD>>
        /\ Len(enqueued) = decisions[i].before + 1

\* C3: a decision whose buffered text extracts to zero changes halts the
\* session with a failure: no answer for it, and no line is processed
\* after it.
C3_ZeroChangesHalts ==
    \A i \in DOMAIN decisions :
        decisions[i].changes = <<>> =>
            /\ AnswersTo(decisions[i]) = <<>>
            /\ epc # "running"
            /\ yielded = <<>>

\* C4: the text handed to extract_changes at a decision point is the lines
\* yielded since the previous decision point (or the start), each followed
\* by a newline; while the loop runs the buffer is the lines yielded since
\* the last decision point, and it is empty right after one.
C4_BufferIsLinesSinceDecision ==
    [][/\ epc' = "running" => buffer' = JoinLF(yielded')
       /\ decisions' # decisions =>
            /\ decisions'[1].text = JoinLF(yielded)
            /\ epc' = "running" => buffer' = <<>>]_vars

\* C4 witness: a second decision point has just been passed, its text was
\* not empty and came in more than one read, and the buffer is empty.
C4_Witness ==
    /\ decisions # <<>>
    /\ decisions[1].no = 2
    /\ decisions[1].text # <<>>
    /\ cuts > 0
    /\ epc = "running"
    /\ yielded = <<>>
    /\ buffer = <<>>

(***************************************************************************)
(* Properties of Process (ProcSpec)                                        *)
(***************************************************************************)
NotBreak(c) == c \notin {CR, LF}

IsPrefix(s, t) == Len(s) <= Len(t) /\ SubSeq(t, 1, Len(s)) = s

\* C5: when the iteration has ended other than by a terminal error, every
\* character the child wrote has been read (and so yielded).
C5_OutputDrained ==
    (pc = "done" /\ ~xset) => childUnread = 0

\* C6: the lines are yielded in the order the output was emitted: line
\* breaks aside, the yielded lines put end to end are a prefix of what
\* became readable on the terminal.
C6_YieldedInEmissionOrder ==
    IsPrefix(SelectSeq(Flatten(yielded), NotBreak), SelectSeq(emitted, NotBreak))

\* C6 witness: several lines have been yielded out of more than one read.
C6_Witness ==
    /\ Len(yielded) >= 4
    /\ cuts > 0
    /\ \E i, j \in DOMAIN yielded : i < j /\ yielded[i] # <<>> /\ yielded[j] # <<>>

\* C7: what has been written to the terminal is the lines passed to
\* writeline, in order, each once and each followed by a newline, up to the
\* ones still queued.
C7_WrittenIsPrefixOfEnqueued ==
    /\ Len(stdin_queue) <= Len(enqueued)
    /\ written = JoinLF(SubSeq(enqueued, 1, Len(enqueued) - Len(stdin_queue)))
    /\ stdin_queue = SubSeq(enqueued, Len(enqueued) - Len(stdin_queue) + 1,
                            Len(enqueued))

\* C7 witness: of two different queued lines the first has been written.
C7_Witness ==
    /\ Len(enqueued) = 2 /\ enqueued[1] # enqueued[2]
    /\ written = enqueued[1] \o <<LF>>
    /\ stdin_queue = <<enqueued[2]>>

\* C8: once select has reported the error condition the stream has ended:
\* in that step and ever after no line is yielded, nothing is written to
\* the child, and no exception is raised.
C8_ErrorEndsStream ==
    [][xset' => /\ pc' = "done"
                /\ lines' = lines
                /\ yielded' = yielded
                /\ written' = written
                /\ epc' = "running"]_vars

\* C8 witness: the error was reported while output was readable and a line
\* was queued.
C8_Witness ==
    /\ xset /\ pc = "done"
    /\ ptyOut # <<>> /\ childUnread = Len(ptyOut)
    /\ child # "exited"
    /\ stdin_queue # <<>>

\* C9: when the loop has ended, both descriptors are closed and the child
\* has been reaped.
C9_ResourcesReleased ==
    pc = "done" => /\ fds.master = "closed"
                   /\ fds.slave = "closed"
                   /\ reaped

(***************************************************************************)
(* Properties of extract_changes (ExtractSpec)                             *)
(***************************************************************************)
\* C10: a diff of N well-formed hunks (no context line inside a hunk, with
\* or without context lines around it) extracts to exactly N pairs, the
\* i-th carrying the path declared for the file of the i-th hunk.
C10_OnePairPerHunk ==
    result # None =>
        /\ Len(result) = HunkCount(doc)
        /\ \A i \in DOMAIN result : result[i][1] = HunkPaths(doc)[i]

\* C11: a diff of exactly one hunk, with its '--- a/' and '+++ b/' lines,
\* extracts to exactly one record: the path of the '--- a/' line and the
\* hunk's added and removed lines in their order, whatever their text.
C11_SingleHunkRoundTrip ==
    (result # None /\ Len(doc) = 1 /\ Len(doc[1].hunks) = 1) =>
        result = << <<doc[1].path, doc[1].hunks[1].body>> >>

(***************************************************************************)
(* The review session: answers and partial reads (Spec)                    *)
(***************************************************************************)
\* The child has printed a prompt and is blocked reading its input, the loop
\* of Process.__iter__ is running, and every character the child printed
\* has been read, split, yielded and handled by revert_ignored_changes.
PromptHandled ==
    /\ child = "wait" /\ Contains(script[seg].text, PHRASE)
    /\ LoopLive
    /\ ptyOut = <<>> /\ lines = <<>>

\* C15: a child that has printed a discard prompt and waits for input gets
\* an answer: once the prompt's text has been handled, an answer is queued
\* for writing or has been written.  (In a state where this fails nothing is
\* left that could enqueue one: the loop only polls.)
C15_PromptIsAnswered ==
    PromptHandled => (stdin_queue # <<>> \/ childIn # <<>>)

\* The session on the same script with every segment delivered by one read:
\* the answers passed to writeline up to and including the n-th prompt, the
\* remembered path, and whether the session was ended by an exception.
RECURSIVE WholeReads(_)
WholeReads(n) ==
    IF n = 0 THEN [answers |-> <<>>, path |-> None, ended |-> FALSE]
    ELSE LET p  == WholeReads(n - 1)
             ls == Lines(script[n].text)
             d  == Decide(extract_changes(JoinLF(SubSeq(ls, 1, Len(ls) - 1)),
                                          p.path),
                          p.path, permanently_ignored, ignores)
         IN  IF p.ended THEN p
             ELSE [answers |-> p.answers \o d.writes, path |-> d.newpath,
                   ended |-> d.raised # ""]

\* C16: the answers passed to writeline are the same however the child's
\* output is divided into reads: when the n-th prompt has been handled, they
\* are the answers of the session that got every segment in one read.
C16_AnswersIndependentOfChunks ==
    PromptHandled => enqueued = WholeReads(seg).answers

\* The path the most recent single-change decision took from its change,
\* None before the first such decision; ds is the record of the decision
\* made last, which holds the default path that decision was given.
LastSinglePath(ds) ==
    IF ds = <<>> THEN None
    ELSE IF Len(ds[1].changes) = 1 THEN ds[1].changes[1][1]
    ELSE ds[1].default

\* The '--- a/' lines of a buffered text.
MarkerLines(text) ==
    LET ls == SplitLines(text)
    IN  {i \in DOMAIN ls : StartsWith(ls[i], A_MARKER)}

\* The path the last of them names.
MarkerPath(text) ==
    LET ls == SplitLines(text)
    IN  AfterFirst(ls[Nth(MarkerLines(text), Cardinality(MarkerLines(text)))],
                   A_SEP)

NoPathMarker == \A i \in DOMAIN inLines : ~StartsWith(inLines[i], A_MARKER)

\* C12: for a text with no '--- a/' line and a non-empty default path, every
\* record yielded carries the default path: the records flushed by a
\* 'diff ' or 'index ' line and the record flushed at the end of the text
\* included.
C12_DefaultPathOnEveryRecord ==
    (result # None /\ Truthy(inDefault) /\ NoPathMarker) =>
        \A r \in DOMAIN result : result[r][1] = inDefault

\* A record flushed by a header and a record flushed at the end of the text.
C12_Witness ==
    /\ result # None /\ Truthy(inDefault) /\ NoPathMarker
    /\ Len(result) = 2
    /\ \E i \in DOMAIN inLines : inLines[i] \in {L_DIFF(A_TXT), L_INDEX}
    /\ inLines[Len(inLines)] \in {L_ADD, L_DEL}

\* The kinds of line, as the description of the extractor names them.
IsSkipped(l) ==
    \/ l \in ANSWER_LINES
    \/ StartsWith(l, HUNK_PREFIX)
    \/ StartsWith(l, A_MARKER) \/ StartsWith(l, B_MARKER)
IsHeader(l) == StartsWith(l, DIFF_PREFIX) \/ StartsWith(l, INDEX_PREFIX)
IsChangeLine(l) ==
    /\ ~IsSkipped(l) /\ ~IsHeader(l)
    /\ StartsWith(l, <<"+">>) \/ StartsWith(l, <<"-">>)

\* Positions of the added and removed lines of the text.
ChangePositions == {i \in DOMAIN inLines : IsChangeLine(inLines[i])}

\* How many lines the records before record r hold.
RECURSIVE LinesBefore(_)
LinesBefore(r) ==
    IF r = 1 THEN 0 ELSE LinesBefore(r - 1) + Len(result[r - 1][2])

\* C13: the changes come in input order and none is empty; the lines of a
\* change are consecutive added or removed lines of the text with nothing
\* but skipped lines ('@@ ', path markers, 'y'/'n'/'s') between them, so no
\* change has lines from both sides of a context line or of a 'diff ' or
\* 'index ' line.
C13_ChangesAreRuns ==
    result # None =>
        /\ \A r \in DOMAIN result : result[r][2] # <<>>
        /\ LinesBefore(Len(result) + 1) = Cardinality(ChangePositions)
        /\ \A r \in DOMAIN result : \A k \in DOMAIN result[r][2] :
             LET at == Nth(ChangePositions, LinesBefore(r) + k)
             IN  /\ result[r][2][k] = inLines[at]
                 /\ k > 1 =>
                      \A m \in (Nth(ChangePositions, LinesBefore(r) + k - 1) + 1)
                               .. (at - 1) : IsSkipped(inLines[m])

\* A change whose two lines have a skipped line between them.
C13_Witness ==
    /\ result # None
    /\ \E r \in DOMAIN result :
         /\ Len(result[r][2]) = 2
         /\ \E i \in DOMAIN inLines :
              /\ i > 1 /\ i < Len(inLines)
              /\ IsSkipped(inLines[i])
              /\ inLines[i - 1] = result[r][2][1]
              /\ inLines[i + 1] = result[r][2][2]

(***************************************************************************)
(* Properties of cli and the store (CliSpec)                               *)
(***************************************************************************)
\* The store has been closed: __exit__ has written its file.
StoreClosed == cpc \in {"restore", "reset", "end", "raised"}

\* The mapping in the file the store wrote.
Persisted == JsonLoads(files[store.path])

\* C14: every (path, change) remember_discarded_changes extracts is added
\* to the policy and is in the mapping persisted when the store is closed,
\* with or without autopurge, so that a later session whose prompt extracts
\* to that one pair answers 'y'.
C14_DiscardedIsRemembered ==
    (StoreClosed /\ result # None) =>
        \A r \in DOMAIN result :
            /\ \E i \in DOMAIN added : added[i] = result[r]
            /\ Store__contains___(Persisted, result[r])
            /\ Decide(<<result[r]>>, None, permanently_ignored,
                      Persisted).writes = << <<"y">> >>

\* C18: once the tool has run, cli restores the working tree and then
\* resets the index, however the review ended: also when
\* revert_ignored_changes or remember_discarded_changes raised.
C18_CleanupAlwaysRuns ==
    cpc \in {"end", "raised"} => cleanup = <<"restore", "reset">>

\* The entries of a mapping whose (path, change) is in a set of pairs, in
\* their order, paths left with no entry dropped.
RECURSIVE EntriesIn(_, _)
EntriesIn(ign, pairs) ==
    IF ign = <<>> THEN <<>>
    ELSE LET p    == Head(ign)[1]
             kept == SelectSeq(Head(ign)[2], LAMBDA sg : <<p, sg>> \in pairs)
         IN  (IF kept = <<>> THEN <<>> ELSE << <<p, kept>> >>)
             \o EntriesIn(Tail(ign), pairs)

\* A mapping with the pairs added one after the other.
RECURSIVE WithAdded(_, _)
WithAdded(ign, pairs) ==
    IF pairs = <<>> THEN ign
    ELSE WithAdded(Store_add(ign, Head(pairs)[1], Head(pairs)[2]),
                   Tail(pairs))

\* C19: closed with autopurge, the store persists exactly the entries of its
\* in-memory policy that were the subject of a membership query during the
\* session, in their per-path order and without empty paths; closed without
\* autopurge, it persists the loaded mapping plus every added entry in the
\* order of addition.
C19_PurgeKeepsQueried ==
    [][(cpc = "exit" /\ cpc' # "exit") =>
         LET persisted == JsonLoads(files'[store.path])
         IN  IF store.purge_unused
             THEN persisted = EntriesIn(ignores, asked)
             ELSE persisted = WithAdded(StoreLoad(files, store.path), added)
       ]_vars

\* C20: stores of different tool ids, and the store of a tool id and the
\* store of none, are isolated: writing the file of one leaves the file of
\* every other as it was.
C20_ToolIdsIsolated ==
    [][\A t \in ToolIds \cup {None} :
          t # opts.tool_id => files'[StorePath(t)] = files[StorePath(t)]
       ]_vars
====
